---- MODULE Spec2Model ----
(***************************************************************************)
(* A model of the weather forecast application (src/app.py, src/config.py) *)
(* - the presentation helpers (condition code -> glyph / gradient, wind    *)
(*   degrees -> compass label, timestamp formatting),                      *)
(* - the forecast view (truncation, grouping by day, rendering),           *)
(* - the memoized weather client and the render pass of the page.          *)
(***************************************************************************)
EXTENDS Integers, Sequences, FiniteSets, TLC

VARIABLES
    icon_in,    \* arguments of the glyph / gradient mapping under evaluation
    icon_out,   \* their results
    wind_in,    \* argument of get_wind_direction, in quarter degrees
    wind_out,   \* its results
    fc_in,      \* a decoded forecast response as the upstream builds it
    fc_out,     \* what display_forecast rendered for it
    api_key,    \* config.OPENWEATHER_API_KEY
    now,        \* the clock, in seconds
    cache,      \* st.cache_data: call key -> [value, msgs, at]
    last_get,   \* per call key, when its GET was last issued since the last clear
    early_gets, \* call keys whose GET was issued again within one TTL of the last
    session_state, \* st.session_state: key -> value
    passes,     \* render passes begun
    pc,         \* where the running render pass stands
    pass        \* the running (or last) render pass

iconVars == <<icon_in, icon_out>>

windVars == <<wind_in, wind_out>>

fcVars == <<fc_in, fc_out>>

appVars == <<api_key, now, cache, last_get, early_gets, session_state, passes, pc, pass>>

vars == <<icon_in, icon_out, wind_in, wind_out, fc_in, fc_out,
          api_key, now, cache, last_get, early_gets, session_state, passes, pc, pass>>

Unset == [set |-> FALSE]

(***************************************************************************)
(* Condition code -> glyph.  Glyphs are named by their Unicode names; two  *)
(* branches that return the same glyph return the same string.             *)
(***************************************************************************)
MinWeatherId == 195
MaxWeatherId == 810

DefaultEmoji == "sun_behind_small_cloud"

DefaultGradient == "135deg,#1e90ff,#4dabf7"

get_weather_emoji(weather_id, icon, is_day) ==
    IF 200 <= weather_id /\ weather_id <= 232 THEN "cloud_with_lightning_and_rain"
    ELSE IF 300 <= weather_id /\ weather_id <= 321 THEN "sun_behind_rain_cloud"
    ELSE IF 500 <= weather_id /\ weather_id <= 531 THEN
        IF weather_id = 500 THEN "cloud_with_rain"
        ELSE IF weather_id \in {501, 502, 503, 504} THEN "cloud_with_rain"
        ELSE "sun_behind_rain_cloud"
    ELSE IF 600 <= weather_id /\ weather_id <= 622 THEN "snowflake"
    ELSE IF 701 <= weather_id /\ weather_id <= 781 THEN
        IF weather_id = 701 THEN "fog"
        ELSE IF weather_id = 711 THEN "dashing_away"
        ELSE IF weather_id = 721 THEN "fog"
        ELSE IF weather_id \in {731, 751, 761} THEN "dashing_away"
        ELSE IF weather_id = 741 THEN "fog"
        ELSE IF weather_id = 771 THEN "dashing_away"
        ELSE IF weather_id = 781 THEN "tornado"
        ELSE "fog"
    ELSE IF weather_id = 800 THEN (IF is_day THEN "sun" ELSE "crescent_moon")
    ELSE IF 801 <= weather_id /\ weather_id <= 804 THEN
        IF weather_id = 801 THEN (IF is_day THEN "sun_behind_small_cloud" ELSE "crescent_moon")
        ELSE IF weather_id = 802 THEN "sun_behind_cloud"
        ELSE IF weather_id \in {803, 804} THEN "cloud"
        ELSE DefaultEmoji
    ELSE DefaultEmoji

\* a gradient mapping whose rain branch stops at the drizzle range
get_weather_gradient_DrizzleOnly(weather_id, is_day) ==
    IF 200 <= weather_id /\ weather_id <= 232 THEN "135deg,#2c3e50,#3498db"
    ELSE IF 300 <= weather_id /\ weather_id <= 321 THEN "135deg,#3498db,#2980b9"
    ELSE IF 600 <= weather_id /\ weather_id <= 622 THEN "135deg,#ecf0f1,#bdc3c7"
    ELSE IF 701 <= weather_id /\ weather_id <= 781 THEN "135deg,#95a5a6,#7f8c8d"
    ELSE IF weather_id = 800 THEN
        (IF is_day THEN "135deg,#f39c12,#e67e22" ELSE "135deg,#2c3e50,#34495e")
    ELSE IF 801 <= weather_id /\ weather_id <= 804 THEN "135deg,#bdc3c7,#95a5a6"
    ELSE DefaultGradient

get_weather_gradient(weather_id, is_day) ==
    IF 200 <= weather_id /\ weather_id <= 232 THEN "135deg,#2c3e50,#3498db"
    ELSE IF 300 <= weather_id /\ weather_id <= 531 THEN "135deg,#3498db,#2980b9"
    ELSE IF 600 <= weather_id /\ weather_id <= 622 THEN "135deg,#ecf0f1,#bdc3c7"
    ELSE IF 701 <= weather_id /\ weather_id <= 781 THEN "135deg,#95a5a6,#7f8c8d"
    ELSE IF weather_id = 800 THEN
        (IF is_day THEN "135deg,#f39c12,#e67e22" ELSE "135deg,#2c3e50,#34495e")
    ELSE IF 801 <= weather_id /\ weather_id <= 804 THEN "135deg,#bdc3c7,#95a5a6"
    ELSE DefaultGradient

\* the ranges the specification documents for the mapping
InDocumentedRange(weather_id) ==
    \/ 200 <= weather_id /\ weather_id <= 232
    \/ 300 <= weather_id /\ weather_id <= 321
    \/ 500 <= weather_id /\ weather_id <= 531
    \/ 600 <= weather_id /\ weather_id <= 622
    \/ 701 <= weather_id /\ weather_id <= 781
    \/ weather_id = 800
    \/ 801 <= weather_id /\ weather_id <= 804

IconsIdle == icon_in = Unset /\ icon_out = Unset

InitIcons ==
    /\ icon_in \in [set : {TRUE}, weather_id : MinWeatherId..MaxWeatherId, is_day : BOOLEAN]
    /\ icon_out = Unset

\* the icon system of display_current_weather / display_forecast: the icon
\* name carries the day flag ("d" in icon), and both mappings are applied
ApplyIcons ==
    /\ icon_in.set /\ ~icon_out.set
    /\ LET icon == IF icon_in.is_day THEN "01d" ELSE "01n"
       IN icon_out' = [set |-> TRUE,
                       emoji |-> get_weather_emoji(icon_in.weather_id, icon, icon_in.is_day),
                       gradient |-> get_weather_gradient(icon_in.weather_id, icon_in.is_day)]
    /\ UNCHANGED <<icon_in, windVars, fcVars, appVars>>

(***************************************************************************)
(* Wind degrees -> compass label.  Degrees are exact multiples of a        *)
(* quarter degree, so that the sector boundaries (odd multiples of 11.25)  *)
(* are inputs; SectorQ is 22.5 degrees in that unit.                       *)
(***************************************************************************)
SectorQ == 90

FullCircleQ == 16 * SectorQ

MaxDegQ == 1500

directions ==
    <<"N", "NNE", "NE", "ENE", "E", "ESE", "SE", "SSE",
      "S", "SSW", "SW", "WSW", "W", "WNW", "NW", "NNW">>

\* rounding of num/den (den > 0) with ties away from zero
RoundHalfAway(num, den) ==
    LET q == num \div den
        r == num % den
    IN IF 2 * r < den THEN q
       ELSE IF 2 * r > den THEN q + 1
       ELSE IF num >= 0 THEN q + 1 ELSE q

\* Python's round(): num/den (den > 0) to the nearest integer, ties to even
Round(num, den) ==
    LET q == num \div den    \* floor
        r == num % den
    IN IF 2 * r < den THEN q
       ELSE IF 2 * r > den THEN q + 1
       ELSE IF q % 2 = 0 THEN q ELSE q + 1

\* index = round(deg / 22.5) % 16
WindIndex(degQ) == Round(degQ, SectorQ) % 16

get_wind_direction(degQ) == directions[WindIndex(degQ) + 1]

InitWind ==
    /\ wind_in \in [set : {TRUE}, deg : (0 - MaxDegQ)..MaxDegQ]
    /\ wind_out = Unset

ApplyWind ==
    /\ wind_in.set /\ ~wind_out.set
    /\ wind_out' = [set |-> TRUE,
                    index |-> WindIndex(wind_in.deg),
                    dir |-> get_wind_direction(wind_in.deg),
                    dir360 |-> get_wind_direction(wind_in.deg + FullCircleQ)]
    /\ UNCHANGED <<wind_in, iconVars, fcVars, appVars>>

WindIdle == wind_in = Unset /\ wind_out = Unset


(***************************************************************************)
(* Timestamps.  A dt_txt value carries its text (raw) and what a scan of   *)
(* the text against %Y-%m-%d %H:%M:%S finds: lex = "stamp" with the six    *)
(* numbers when the text has that layout, lex = "other" when it has not.   *)
(* present = FALSE stands for an entry without the key.                    *)
(***************************************************************************)
Pad2(n) == IF n < 10 THEN "0" \o ToString(n) ELSE ToString(n)

Stamp(y, mo, d, h, mi, s) ==
    [present |-> TRUE, lex |-> "stamp",
     raw |-> ToString(y) \o "-" \o Pad2(mo) \o "-" \o Pad2(d) \o " "
             \o Pad2(h) \o ":" \o Pad2(mi) \o ":" \o Pad2(s),
     y |-> y, mo |-> mo, d |-> d, h |-> h, mi |-> mi, s |-> s]

OtherText(raw) ==
    [present |-> TRUE, lex |-> "other", raw |-> raw,
     y |-> 0, mo |-> 0, d |-> 0, h |-> 0, mi |-> 0, s |-> 0]

NoDtTxt ==
    [present |-> FALSE, lex |-> "other", raw |-> "",
     y |-> 0, mo |-> 0, d |-> 0, h |-> 0, mi |-> 0, s |-> 0]

IsLeap(y) == (y % 4 = 0 /\ y % 100 # 0) \/ y % 400 = 0

DaysInMonth(y, mo) ==
    IF mo = 2 THEN (IF IsLeap(y) THEN 29 ELSE 28)
    ELSE IF mo \in {4, 6, 9, 11} THEN 30 ELSE 31

\* datetime.strptime(text, "%Y-%m-%d %H:%M:%S") succeeds (else ValueError)
Parses(t) ==
    /\ t.lex = "stamp"
    /\ t.y \in 1..9999
    /\ t.mo \in 1..12
    /\ t.d \in 1..DaysInMonth(t.y, t.mo)
    /\ t.h \in 0..23
    /\ t.mi \in 0..59
    /\ t.s \in 0..61

\* day of the week of a calendar date, 0 = Saturday (Zeller's congruence)
Weekday(y, mo, d) ==
    LET m == IF mo < 3 THEN mo + 12 ELSE mo
        yy == IF mo < 3 THEN y - 1 ELSE y
        K == yy % 100
        J == yy \div 100
    IN (d + ((13 * (m + 1)) \div 5) + K + (K \div 4) + (J \div 4) + 5 * J) % 7

DayNames == <<"Saturday", "Sunday", "Monday", "Tuesday", "Wednesday", "Thursday", "Friday">>

DayAbbrs == <<"Sat", "Sun", "Mon", "Tue", "Wed", "Thu", "Fri">>

MonthNames ==
    <<"January", "February", "March", "April", "May", "June", "July",
      "August", "September", "October", "November", "December">>

MonthAbbrs ==
    <<"Jan", "Feb", "Mar", "Apr", "May", "Jun", "Jul", "Aug", "Sep", "Oct", "Nov", "Dec">>

\* dt.strftime("%Y-%m-%d")
DayKey(y, mo, d) == ToString(y) \o "-" \o Pad2(mo) \o "-" \o Pad2(d)

\* dt.strftime("%I:%M %p")
TimeStr(h, mi) ==
    LET h12 == IF h % 12 = 0 THEN 12 ELSE h % 12
    IN Pad2(h12) \o ":" \o Pad2(mi) \o " " \o (IF h < 12 THEN "AM" ELSE "PM")

\* format_datetime: (date_str, time_str), or (dt_txt, "") on ValueError
format_datetime(dt_txt) ==
    IF Parses(dt_txt)
    THEN <<DayAbbrs[Weekday(dt_txt.y, dt_txt.mo, dt_txt.d) + 1] \o ", "
             \o MonthAbbrs[dt_txt.mo] \o " " \o Pad2(dt_txt.d),
           TimeStr(dt_txt.h, dt_txt.mi)>>
    ELSE <<dt_txt.raw, "">>

(***************************************************************************)
(* Forecast entries and the forecast view                                  *)
(***************************************************************************)
Min(a, b) == IF a <= b THEN a ELSE b

HourOptions == {24, 48, 72, 120}

\* a forecast entry: main holds temp, temp_min, temp_max and humidity when
\* has_main; weather is the list under "weather": "ok" (one condition),
\* "empty" ([]) or "absent" (no such key)
Entry(dt_txt, has_main, weather, weather_id, icon) ==
    [dt_txt |-> dt_txt, has_main |-> has_main, weather |-> weather,
     weather_id |-> weather_id, icon |-> icon]

\* the dict forecasts_by_day, in insertion order: <<[key, idxs]>>, idxs the
\* positions (in forecast_data["list"]) of the entries appended to the bucket
RECURSIVE AddToDay(_, _, _)
AddToDay(groups, key, i) ==
    IF groups = <<>> THEN <<[key |-> key, idxs |-> <<i>>]>>
    ELSE IF Head(groups).key = key
         THEN <<[key |-> key, idxs |-> Append(Head(groups).idxs, i)]>> \o Tail(groups)
         ELSE <<Head(groups)>> \o AddToDay(Tail(groups), key, i)

\* the grouping loop over list[:entries_to_show], from entry i on
RECURSIVE GroupFrom(_, _, _, _)
GroupFrom(list, i, n, groups) ==
    IF i > n THEN [raised |-> "none", groups |-> groups]
    ELSE IF ~list[i].dt_txt.present THEN [raised |-> "KeyError", groups |-> <<>>]
    ELSE IF ~Parses(list[i].dt_txt) THEN [raised |-> "ValueError", groups |-> <<>>]
    ELSE GroupFrom(list, i + 1, n,
                   AddToDay(groups,
                            DayKey(list[i].dt_txt.y, list[i].dt_txt.mo, list[i].dt_txt.d), i))

\* "d" in icon, over the icon names in use
IsDayIcon(icon) == icon \in {"01d", "02d"}

\* the card of one entry, or the exception reading its fields raises
Card(list, i, units) ==
    LET e == list[i]
    IN IF ~e.dt_txt.present THEN [raised |-> "KeyError"]
       ELSE IF ~e.has_main THEN [raised |-> "KeyError"]
       ELSE IF e.weather = "absent" THEN [raised |-> "KeyError"]
       ELSE IF e.weather = "empty" THEN [raised |-> "IndexError"]
       ELSE [raised |-> "none",
             card |-> [i |-> i,
                       emoji |-> get_weather_emoji(e.weather_id, e.icon, IsDayIcon(e.icon)),
                       time_str |-> format_datetime(e.dt_txt)[2],
                       unit_symbol |-> IF units = "metric" THEN "C" ELSE "F"]]

\* the cards of one day, from position k of its bucket on
RECURSIVE RenderDay(_, _, _, _, _)
RenderDay(list, idxs, k, units, cards) ==
    IF k > Len(idxs) THEN [raised |-> "none", cards |-> cards]
    ELSE LET c == Card(list, idxs[k], units)
         IN IF c.raised # "none" THEN [raised |-> c.raised, cards |-> cards]
            ELSE RenderDay(list, idxs, k + 1, units, Append(cards, c.card))

\* "%A, %B %d" of the date a day key parses to; keys come from DayKey
DayHeader(list, idxs) ==
    LET t == list[idxs[1]].dt_txt
    IN DayNames[Weekday(t.y, t.mo, t.d) + 1] \o ", " \o MonthNames[t.mo] \o " " \o Pad2(t.d)

\* the rendering loop over forecasts_by_day.items(), from bucket g on
RECURSIVE RenderFrom(_, _, _, _, _, _)
RenderFrom(list, groups, g, units, headers, cards) ==
    IF g > Len(groups) THEN [raised |-> "none", headers |-> headers, cards |-> cards]
    ELSE LET hs == Append(headers, DayHeader(list, groups[g].idxs))
             r == RenderDay(list, groups[g].idxs, 1, units, cards)
         IN IF r.raised # "none"
            THEN [raised |-> r.raised, headers |-> hs, cards |-> r.cards]
            ELSE RenderFrom(list, groups, g + 1, units, hs, r.cards)

\* display_forecast: what the call leaves on the page, and the exception
\* that ended it ("none" when it returned)
display_forecast(forecast_data, units, hours) ==
    IF ~forecast_data.has_list
    THEN [raised |-> "KeyError", groups |-> <<>>, headers |-> <<>>, cards |-> <<>>]
    ELSE LET list == forecast_data.list
             entries_to_show == Min(hours \div 3, Len(list))
             grp == GroupFrom(list, 1, entries_to_show, <<>>)
         IN IF grp.raised # "none"
            THEN [raised |-> grp.raised, groups |-> <<>>, headers |-> <<>>, cards |-> <<>>]
            ELSE LET r == RenderFrom(list, grp.groups, 1, units, <<>>, <<>>)
                 IN [raised |-> r.raised, groups |-> grp.groups,
                     headers |-> r.headers, cards |-> r.cards]


(***************************************************************************)
(* The forecast view on its own: the upstream builds a response entry by   *)
(* entry (3-hour steps from midnight of the first day), then the view      *)
(* renders it for one of the forecast periods.                             *)
(***************************************************************************)
MaxEntries == 9

MaxDefects == 1

MaxDayChanges == 2

Units == {"metric", "imperial"}

EntryKinds ==
    {"ok", "bad_month", "bad_text", "no_dt_txt", "no_main", "empty_weather", "no_weather"}

\* the entry the upstream puts at position k (from 0), dated day d of
\* January 2024, with the given defect of shape
UpstreamEntryAt(k, d, kind) ==
    LET h == (3 * k) % 24
        icon == IF 6 <= h /\ h < 18 THEN "01d" ELSE "01n"
        dt == IF kind = "bad_month" THEN Stamp(2024, 13, d, h, 0, 0)
              ELSE IF kind = "bad_text" THEN OtherText("N/A")
              ELSE IF kind = "no_dt_txt" THEN NoDtTxt
              ELSE Stamp(2024, 1, d, h, 0, 0)
        weather == IF kind = "empty_weather" THEN "empty"
                   ELSE IF kind = "no_weather" THEN "absent" ELSE "ok"
    IN Entry(dt, kind # "no_main", weather, 800, icon)

\* an entry of the shape the forecast endpoint documents
WellShaped(e) == e.dt_txt.present /\ Parses(e.dt_txt) /\ e.has_main /\ e.weather = "ok"

Defects(list) == Cardinality({i \in 1..Len(list) : ~WellShaped(list[i])})

\* the number of places where consecutive stamped entries change the day
DayChanges(list) ==
    Cardinality({i \in 2..Len(list) :
                    /\ list[i].dt_txt.lex = "stamp" /\ list[i - 1].dt_txt.lex = "stamp"
                    /\ list[i].dt_txt.d # list[i - 1].dt_txt.d})

InitForecast ==
    /\ fc_in \in [has_list : BOOLEAN, list : {<<>>}]
    /\ fc_out = Unset

UpstreamEntry ==
    /\ ~fc_out.set
    /\ fc_in.has_list
    /\ Len(fc_in.list) < MaxEntries
    /\ \E d \in {1, 2}, kind \in EntryKinds :
          LET e == UpstreamEntryAt(Len(fc_in.list), d, kind)
          IN /\ (kind \in {"bad_text", "no_dt_txt"} => d = 1)
             /\ Defects(Append(fc_in.list, e)) <= MaxDefects
             /\ DayChanges(Append(fc_in.list, e)) <= MaxDayChanges
             /\ fc_in' = [fc_in EXCEPT !.list = Append(@, e)]
    /\ UNCHANGED <<fc_out, iconVars, windVars, appVars>>

DisplayForecast ==
    /\ ~fc_out.set
    /\ \E units \in Units, hours \in HourOptions :
          LET r == display_forecast(fc_in, units, hours)
          IN fc_out' = [set |-> TRUE, units |-> units, hours |-> hours,
                        raised |-> r.raised, groups |-> r.groups,
                        headers |-> r.headers, cards |-> r.cards]
    /\ UNCHANGED <<fc_in, iconVars, windVars, appVars>>

ForecastIdle == fc_in = [has_list |-> FALSE, list |-> <<>>] /\ fc_out = Unset


(***************************************************************************)
(* Configuration (src/config.py)                                           *)
(***************************************************************************)
Placeholder == "your_api_key_here"

\* what os.getenv("OPENWEATHER_API_KEY") may give; "<unset>" stands for None
EnvValues == {"<unset>", "", Placeholder, "k-live"}

get_api_key(env) == IF env = "<unset>" \/ env = "" THEN Placeholder ELSE env

CACHE_TTL == 300

REQUEST_TIMEOUT == 10

(***************************************************************************)
(* Values.  Python's None is the string "None"; a key a JSON object does   *)
(* not have is "<absent>"; JSON null decodes to None.  Coordinates are     *)
(* kept as the decimal text of the JSON number.                            *)
(***************************************************************************)
None == "None"

Absent == "<absent>"

\* dict.get(key): None for a missing key
Get(v) == IF v = Absent THEN None ELSE v

\* truth value of an optional string
Truthy(v) == v # None /\ v # ""

NotFound == [lat |-> None, lon |-> None, name |-> None, country |-> None, state |-> None]

(***************************************************************************)
(* The geocoding call.  A response is a failure of the request (network,   *)
(* timeout, HTTP status) or a decoded JSON body: a list of items, a JSON   *)
(* object, or a number.  An item is an object with some of lat, lon, name, *)
(* country, state, or not an object at all.                                *)
(***************************************************************************)
GeoItem(is_object, lat, lon, name, country, state) ==
    [is_object |-> is_object, lat |-> lat, lon |-> lon,
     name |-> name, country |-> country, state |-> state]

GeoBody(type, items) == [failed |-> FALSE, type |-> type, items |-> items]

RequestFailed == [failed |-> TRUE, type |-> "none", items |-> <<>>]

ParisItem == GeoItem(TRUE, "48.8566", "2.3522", "Paris", "FR", Absent)

GeoResponses ==
    { RequestFailed,
      GeoBody("list", <<>>),
      GeoBody("list", <<ParisItem>>),
      GeoBody("list", <<[ParisItem EXCEPT !.lon = None]>>),
      GeoBody("list", <<[ParisItem EXCEPT !.lat = Absent]>>),
      GeoBody("list", <<GeoItem(FALSE, Absent, Absent, Absent, Absent, Absent)>>),
      GeoBody("object", <<>>),
      GeoBody("number", <<>>) }

\* bool(data) of a decoded body: objects and numbers here are non-empty / non-zero
BodyTruthy(data) == IF data.type = "list" THEN data.items # <<>> ELSE TRUE

\* the body of get_coordinates, given what requests.get(...) came to:
\* the value returned or the exception that escapes, and the st.error calls
get_coordinates_body(response) ==
    IF response.failed
    THEN [raised |-> "none", ret |-> NotFound, msgs |-> {"error_fetching_location"}]
    ELSE IF ~BodyTruthy(response)
    THEN [raised |-> "none", ret |-> NotFound, msgs |-> {}]
    ELSE IF response.type = "object"         \* data[0] on a dict: KeyError
    THEN [raised |-> "none", ret |-> NotFound, msgs |-> {"error_parsing_location"}]
    ELSE IF response.type = "number"         \* data[0] on a number: TypeError
    THEN [raised |-> "TypeError", ret |-> NotFound, msgs |-> {}]
    ELSE LET location_data == response.items[1]
         IN IF ~location_data.is_object      \* location_data["lat"]: TypeError
            THEN [raised |-> "TypeError", ret |-> NotFound, msgs |-> {}]
            ELSE IF location_data.lat = Absent \/ location_data.lon = Absent
            THEN [raised |-> "none", ret |-> NotFound, msgs |-> {"error_parsing_location"}]
            ELSE [raised |-> "none",
                  ret |-> [lat |-> location_data.lat, lon |-> location_data.lon,
                           name |-> Get(location_data.name),
                           country |-> Get(location_data.country),
                           state |-> Get(location_data.state)],
                  msgs |-> {}]

(***************************************************************************)
(* The current-weather and forecast calls.  Each returns the decoded body, *)
(* or None after a failed request.  A current-weather body: main holds     *)
(* temp, feels_like, humidity and pressure when has_main; weather is "ok", *)
(* "empty" or "absent"; wind_deg is the wind's deg in whole degrees.       *)
(***************************************************************************)
CurBody(has_main, weather, weather_id, icon, has_wind, wind_deg, has_sys) ==
    [none |-> FALSE, has_main |-> has_main, weather |-> weather,
     weather_id |-> weather_id, icon |-> icon,
     has_wind |-> has_wind, wind_deg |-> wind_deg, has_sys |-> has_sys]

CurNone == [CurBody(FALSE, "absent", 0, "", FALSE, 0, FALSE) EXCEPT !.none = TRUE]

CurOk == CurBody(TRUE, "ok", 801, "02d", TRUE, 180, TRUE)

\* what the current-weather endpoint may answer; CurNone is a failed request
CurResponses ==
    { CurNone,
      CurOk,
      [CurOk EXCEPT !.has_main = FALSE],
      [CurOk EXCEPT !.weather = "empty"] }

FcBody(has_list, list) == [none |-> FALSE, has_list |-> has_list, list |-> list]

FcNone == [none |-> TRUE, has_list |-> FALSE, list |-> <<>>]

\* what the forecast endpoint may answer; FcNone is a failed request
FcResponses ==
    { FcNone,
      FcBody(TRUE, <<UpstreamEntryAt(0, 1, "ok"), UpstreamEntryAt(1, 1, "ok")>>),
      FcBody(FALSE, <<>>),
      FcBody(TRUE, <<UpstreamEntryAt(0, 1, "ok"), UpstreamEntryAt(1, 1, "no_dt_txt")>>) }

\* get_current_weather's body: response.json(), or None and an st.error
get_current_weather_body(response) ==
    IF response.none
    THEN [raised |-> "none", ret |-> CurNone, msgs |-> {"error_fetching_current"}]
    ELSE [raised |-> "none", ret |-> response, msgs |-> {}]

\* get_forecast's body: response.json(), or None and an st.error
get_forecast_body(response) ==
    IF response.none
    THEN [raised |-> "none", ret |-> FcNone, msgs |-> {"error_fetching_forecast"}]
    ELSE [raised |-> "none", ret |-> response, msgs |-> {}]

\* location_parts of display_current_weather
LocationParts(city, country, state) ==
    (IF Truthy(city) THEN <<city>> ELSE <<>>)
      \o (IF Truthy(state) /\ state # city THEN <<state>> ELSE <<>>)
      \o (IF Truthy(country) THEN <<country>> ELSE <<>>)

\* display_current_weather: the card it renders, or the exception it raises
display_current_weather(weather_data, units, city, country, state) ==
    IF ~weather_data.has_main THEN [raised |-> "KeyError"]
    ELSE IF weather_data.weather = "absent" THEN [raised |-> "KeyError"]
    ELSE IF weather_data.weather = "empty" THEN [raised |-> "IndexError"]
    ELSE LET is_day == IsDayIcon(weather_data.icon)
             parts == LocationParts(city, country, state)
         IN [raised |-> "none",
             emoji |-> get_weather_emoji(weather_data.weather_id, weather_data.icon, is_day),
             gradient |-> get_weather_gradient(weather_data.weather_id, is_day),
             location_str |-> IF parts # <<>> THEN parts ELSE <<"Unknown Location">>,
             unit_symbol |-> IF units = "metric" THEN "C" ELSE "F",
             wind_dir |-> IF weather_data.has_wind
                          THEN get_wind_direction(4 * weather_data.wind_deg)
                          ELSE ""]

(***************************************************************************)
(* st.cache_data(ttl=CACHE_TTL): one entry per function and arguments,     *)
(* holding the returned value and the st.error calls to replay; an entry   *)
(* is served while it is younger than the TTL; a call that raises stores   *)
(* nothing.                                                                *)
(***************************************************************************)
CallKey(fn, location, lat, lon, units) ==
    [fn |-> fn, location |-> location, lat |-> lat, lon |-> lon, units |-> units]

GeoKey(location) == CallKey("get_coordinates", location, "", "", "")

EmptyMap == [k \in {} |-> 0]

Fresh(k) == k \in DOMAIN cache /\ now < cache[k].at + CACHE_TTL

Drop(map, k) == [x \in DOMAIN map \ {k} |-> map[x]]

\* the cache after a miss on k whose run came to r
Stored(k, r) ==
    IF r.raised = "none"
    THEN (k :> [value |-> r.ret, msgs |-> r.msgs, at |-> now]) @@ cache
    ELSE Drop(cache, k)

\* the upstream answers 401 to the placeholder key, which fails the request
UpstreamAnswers(all, failure) == IF api_key = Placeholder THEN {failure} ELSE all

\* a GET for call key k goes out now
IssueGet(k) ==
    /\ last_get' = (k :> now) @@ last_get
    /\ early_gets' = IF k \in DOMAIN last_get /\ now - last_get[k] < CACHE_TTL
                     THEN early_gets \cup {k} ELSE early_gets

NoGet == UNCHANGED <<last_get, early_gets>>

(***************************************************************************)
(* The render pass (one run of the script).  It blocks in three places,    *)
(* the three requests; pc names the call the pass is about to make.        *)
(***************************************************************************)
MaxPasses == 2

TickSeconds == 150

MaxClock == 300

\* the seconds by which the clock may run ahead of a whole tick
MaxLag == 10

Locations == {"", " ", "Paris, France", "Atlantis"}

\* location.strip() == "" (or not location)
Blank(location) == location \in {"", " "}

Suggestions == {"Paris, France"}

NoRender == [raised |-> "none", groups |-> <<>>, headers |-> <<>>, cards |-> <<>>]

NoPass ==
    [started |-> FALSE, done |-> FALSE,
     location |-> "", units |-> "metric", hours |-> 24, details |-> TRUE,
     coords |-> NotFound, geo_returned |-> FALSE, current |-> CurNone,
     card |-> [raised |-> "none"], forecast |-> NoRender,
     calls |-> <<>>, gets |-> <<>>, received |-> <<>>,
     shown |-> {}, raised |-> "none"]

InitApp ==
    /\ \E env \in EnvValues : api_key = get_api_key(env)
    /\ now = 0
    /\ cache = EmptyMap
    /\ last_get = EmptyMap
    /\ early_gets = {}
    /\ session_state = EmptyMap
    /\ passes = 0
    /\ pc = "idle"
    /\ pass = NoPass

AppIdle ==
    /\ api_key = Placeholder /\ now = 0 /\ cache = EmptyMap /\ last_get = EmptyMap
    /\ early_gets = {} /\ session_state = EmptyMap
    /\ passes = 0 /\ pc = "idle" /\ pass = NoPass

\* the pass ends: by running to the end of the script, or by an exception
Finished(p) == [p EXCEPT !.done = TRUE]

Aborted(p, exception) ==
    [p EXCEPT !.done = TRUE, !.raised = exception, !.shown = @ \cup {"exception"}]

\* lines 460-463: a pending suggestion is taken and cleared
PendingSuggestion ==
    IF "selected_suggestion" \in DOMAIN session_state
          /\ Truthy(session_state["selected_suggestion"])
    THEN session_state["selected_suggestion"] ELSE ""

\* the script starts: the sidebar widgets, the pending suggestion, the
\* location input (the suggestion when one is pending, else what the user
\* typed), and either the home screen (blank location) or the way to
\* get_coordinates
BeginPass ==
    /\ pc = "idle"
    /\ passes < MaxPasses
    /\ passes' = passes + 1
    /\ \E location \in (IF PendingSuggestion # "" THEN {PendingSuggestion} ELSE Locations),
          units \in Units, hours \in HourOptions, details \in BOOLEAN :
          LET p == [NoPass EXCEPT !.started = TRUE, !.location = location, !.units = units,
                                  !.hours = hours, !.details = details]
              taken == IF PendingSuggestion # ""
                       THEN [session_state EXCEPT !["selected_suggestion"] = None]
                       ELSE session_state
              widget == ("location_text_input" :> location) @@ taken
          IN IF Blank(location)
             THEN /\ pass' = Finished([p EXCEPT !.shown = {"home", "suggestions", "tips"}])
                  /\ session_state' = ("suggestion_0" :> "False") @@ widget
                  /\ pc' = "idle"
             ELSE /\ pass' = [p EXCEPT !.calls = <<GeoKey(location)>>]
                  /\ session_state' = widget
                  /\ pc' = "geocode"
    /\ UNCHANGED <<api_key, now, cache, last_get, early_gets, iconVars, windVars, fcVars>>

\* the pass goes on after get_coordinates came to r
AfterCoordinates(p, r) ==
    IF r.raised # "none" THEN [pc |-> "idle", pass |-> Aborted(p, r.raised)]
    ELSE LET q == [p EXCEPT !.coords = r.ret, !.geo_returned = TRUE,
                            !.shown = @ \cup r.msgs]
         IN IF r.ret.lat # None /\ r.ret.lon # None
            THEN [pc |-> "current",
                  pass |-> [q EXCEPT !.calls = Append(@, CallKey("get_current_weather", "",
                                                       r.ret.lat, r.ret.lon, p.units))]]
            ELSE [pc |-> "idle",
                  pass |-> Finished([q EXCEPT !.shown = @ \cup {"location_not_found",
                                                                "search_help"}])]

\* get_coordinates(location), served from the cache
GeocodeHit ==
    /\ pc = "geocode"
    /\ Fresh(GeoKey(pass.location))
    /\ LET e == cache[GeoKey(pass.location)]
           a == AfterCoordinates(pass, [raised |-> "none", ret |-> e.value, msgs |-> e.msgs])
       IN pc' = a.pc /\ pass' = a.pass
    /\ NoGet
    /\ UNCHANGED <<api_key, now, cache, session_state, passes, iconVars, windVars, fcVars>>

\* get_coordinates(location), run: the GET goes out and the upstream answers
GeocodeMiss ==
    /\ pc = "geocode"
    /\ ~Fresh(GeoKey(pass.location))
    /\ \E response \in UpstreamAnswers(GeoResponses, RequestFailed) :
          LET k == GeoKey(pass.location)
              r == get_coordinates_body(response)
              p == [pass EXCEPT !.gets = Append(@, [key |-> k, appid |-> api_key]),
                                !.received = Append(@, [key |-> k, response |-> response])]
              a == AfterCoordinates(p, r)
          IN /\ pc' = a.pc /\ pass' = a.pass
             /\ cache' = Stored(k, r)
             /\ IssueGet(k)
    /\ UNCHANGED <<api_key, now, session_state, passes, iconVars, windVars, fcVars>>

\* a render block that gives the pass up when get_current_weather returned None
AfterCurrent_StopsOnNone(p, r) ==
    LET cw == r.ret
        q == [p EXCEPT !.current = cw, !.shown = @ \cup r.msgs]
        card == display_current_weather(cw, p.units, p.coords.name, p.coords.country,
                                        p.coords.state)
    IN IF cw.none
       THEN [pc |-> "idle", pass |-> Finished([q EXCEPT !.shown = @ \cup {"current_unavailable"}])]
       ELSE IF card.raised # "none"
       THEN [pc |-> "idle", pass |-> Aborted(q, card.raised)]
       ELSE [pc |-> "forecast",
             pass |-> [q EXCEPT !.card = card,
                                !.shown = @ \cup {"current_card"},
                                !.calls = Append(@, CallKey("get_forecast", "",
                                                            p.coords.lat, p.coords.lon,
                                                            p.units))]]

\* tab1 once get_current_weather returned cw, then the way to get_forecast
AfterCurrent(p, r) ==
    LET cw == r.ret
        q == [p EXCEPT !.current = cw, !.shown = @ \cup r.msgs]
        card == display_current_weather(cw, p.units, p.coords.name, p.coords.country,
                                        p.coords.state)
    IN IF ~cw.none /\ card.raised # "none"
       THEN [pc |-> "idle", pass |-> Aborted(q, card.raised)]
       ELSE [pc |-> "forecast",
             pass |-> [q EXCEPT !.card = IF cw.none THEN @ ELSE card,
                                !.shown = @ \cup (IF cw.none THEN {"current_unavailable"}
                                                  ELSE {"current_card"}),
                                !.calls = Append(@, CallKey("get_forecast", "",
                                                            p.coords.lat, p.coords.lon,
                                                            p.units))]]

CurrentKey == CallKey("get_current_weather", "", pass.coords.lat, pass.coords.lon, pass.units)

\* get_current_weather(lat, lon, units), served from the cache
CurrentHit ==
    /\ pc = "current"
    /\ Fresh(CurrentKey)
    /\ LET e == cache[CurrentKey]
           a == AfterCurrent(pass, [raised |-> "none", ret |-> e.value, msgs |-> e.msgs])
       IN pc' = a.pc /\ pass' = a.pass
    /\ NoGet
    /\ UNCHANGED <<api_key, now, cache, session_state, passes, iconVars, windVars, fcVars>>

\* get_current_weather(lat, lon, units), run
CurrentMiss ==
    /\ pc = "current"
    /\ ~Fresh(CurrentKey)
    /\ \E response \in UpstreamAnswers(CurResponses, CurNone) :
          LET k == CurrentKey
              r == get_current_weather_body(response)
              p == [pass EXCEPT !.gets = Append(@, [key |-> k, appid |-> api_key]),
                                !.received = Append(@, [key |-> k, response |-> response])]
              a == AfterCurrent(p, r)
          IN /\ pc' = a.pc /\ pass' = a.pass
             /\ cache' = Stored(k, r)
             /\ IssueGet(k)
    /\ UNCHANGED <<api_key, now, session_state, passes, iconVars, windVars, fcVars>>

\* tab3: the additional information, or the hint to enable it
Details(p) ==
    IF p.details /\ ~p.current.none
    THEN {"additional_information", "coordinates"}
            \cup (IF p.current.has_sys THEN {"sunrise_sunset"} ELSE {})
    ELSE {"details_hint"}

\* tab2 once get_forecast returned fc, then tab3 and the end of the script
AfterForecast(p, r) ==
    LET fc == r.ret
        q == [p EXCEPT !.shown = @ \cup r.msgs]
        view == display_forecast(fc, p.units, p.hours)
    IN IF fc.none
       THEN Finished([q EXCEPT !.shown = @ \cup {"forecast_unavailable"} \cup Details(p)])
       ELSE IF view.raised # "none"
       THEN Aborted([q EXCEPT !.forecast = view, !.shown = @ \cup {"forecast_subheader"}],
                    view.raised)
       ELSE Finished([q EXCEPT !.forecast = view,
                               !.shown = @ \cup {"forecast_subheader", "forecast"}
                                           \cup Details(p)])

ForecastKey == CallKey("get_forecast", "", pass.coords.lat, pass.coords.lon, pass.units)

\* get_forecast(lat, lon, units), served from the cache
ForecastHit ==
    /\ pc = "forecast"
    /\ Fresh(ForecastKey)
    /\ LET e == cache[ForecastKey]
       IN pass' = AfterForecast(pass, [raised |-> "none", ret |-> e.value, msgs |-> e.msgs])
    /\ pc' = "idle"
    /\ NoGet
    /\ UNCHANGED <<api_key, now, cache, session_state, passes, iconVars, windVars, fcVars>>

\* get_forecast(lat, lon, units), run
ForecastMiss ==
    /\ pc = "forecast"
    /\ ~Fresh(ForecastKey)
    /\ \E response \in UpstreamAnswers(FcResponses, FcNone) :
          LET k == ForecastKey
              r == get_forecast_body(response)
              p == [pass EXCEPT !.gets = Append(@, [key |-> k, appid |-> api_key]),
                                !.received = Append(@, [key |-> k, response |-> response])]
          IN /\ pass' = AfterForecast(p, r)
             /\ cache' = Stored(k, r)
             /\ IssueGet(k)
    /\ pc' = "idle"
    /\ UNCHANGED <<api_key, now, session_state, passes, iconVars, windVars, fcVars>>

\* a suggestion button of the home screen is clicked
SuggestionClick ==
    /\ pc = "idle"
    /\ pass.done /\ "suggestions" \in pass.shown
    /\ \E full_name \in Suggestions :
          session_state' = ("selected_suggestion" :> full_name) @@ session_state
    /\ UNCHANGED <<api_key, now, cache, last_get, early_gets, passes, pc, pass,
                   iconVars, windVars, fcVars>>

ResetKeys == {"selected_suggestion", "location_input", "location_text_input"}

\* a reset whose loop deletes every session key
Reset_EveryKey ==
    /\ pc = "idle"
    /\ session_state' = EmptyMap
    /\ cache' = EmptyMap
    /\ last_get' = EmptyMap
    /\ UNCHANGED <<api_key, now, early_gets, passes, pc, pass, iconVars, windVars, fcVars>>

\* "Reset to Home": the three session keys are deleted, the cache is cleared
Reset ==
    /\ pc = "idle"
    /\ session_state' = [k \in DOMAIN session_state \ ResetKeys |-> session_state[k]]
    /\ cache' = EmptyMap
    /\ last_get' = EmptyMap
    /\ UNCHANGED <<api_key, now, early_gets, passes, pc, pass, iconVars, windVars, fcVars>>

\* time passes between two render passes: the user waits a tick, or up to
\* the next whole tick
Tick ==
    /\ pc = "idle"
    /\ \E d \in {TickSeconds, TickSeconds - (now % TickSeconds)} :
          /\ now + d <= MaxClock
          /\ now' = now + d
    /\ UNCHANGED <<api_key, cache, last_get, early_gets, session_state, passes, pc, pass,
                   iconVars, windVars, fcVars>>

\* time passes inside a render pass: the pending requests.get blocks for up
\* to its timeout before it answers
RequestTakesTime ==
    /\ pc \in {"geocode", "current", "forecast"}
    /\ (now % TickSeconds) + REQUEST_TIMEOUT <= MaxLag
    /\ now + REQUEST_TIMEOUT <= MaxClock
    /\ now' = now + REQUEST_TIMEOUT
    /\ UNCHANGED <<api_key, cache, last_get, early_gets, session_state, passes, pc, pass,
                   iconVars, windVars, fcVars>>

Next ==
    \/ BeginPass
    \/ GeocodeHit
    \/ GeocodeMiss
    \/ CurrentHit
    \/ CurrentMiss
    \/ ForecastHit
    \/ ForecastMiss
    \/ SuggestionClick
    \/ Reset
    \/ Tick
    \/ RequestTakesTime

Init == InitApp /\ IconsIdle /\ WindIdle /\ ForecastIdle

Spec == Init /\ [][Next]_vars

(***************************************************************************)
(* Specifications of the pure helpers                                      *)
(***************************************************************************)
IconsInit == InitIcons /\ WindIdle /\ ForecastIdle /\ AppIdle

SpecIcons == IconsInit /\ [][ApplyIcons]_vars

WindInit == InitWind /\ IconsIdle /\ ForecastIdle /\ AppIdle

SpecWind == WindInit /\ [][ApplyWind]_vars

NextForecast == UpstreamEntry \/ DisplayForecast

ForecastInit == InitForecast /\ IconsIdle /\ WindIdle /\ AppIdle

SpecForecast == ForecastInit /\ [][NextForecast]_vars

(***************************************************************************)
(* Claims about the condition-code mapping                                 *)
(***************************************************************************)
IconsApplied == icon_in.set /\ icon_out.set

\* C3 (as stated): for every weather code in 200..804 and both day/night
\* flags, the glyph and the gradient are each non-default if and only if the
\* code lies in a documented range.
C3_NonDefaultIffDocumented ==
    (IconsApplied /\ icon_in.weather_id \in 200..804) =>
        /\ (icon_out.emoji # DefaultEmoji) <=> InDocumentedRange(icon_in.weather_id)
        /\ (icon_out.gradient # DefaultGradient) <=> InDocumentedRange(icon_in.weather_id)

\* C3 (amended): the gradient is non-default exactly on the documented
\* ranges plus the gap 322..499, which the rain/drizzle branch also covers;
\* the glyph is the fallback for every code outside the documented ranges and
\* differs from the fallback for every code inside them except 801 by day,
\* whose glyph is the same glyph as the fallback.
C3_Mapping ==
    IconsApplied =>
        /\ (icon_out.emoji # DefaultEmoji) <=>
              (InDocumentedRange(icon_in.weather_id)
                 /\ ~(icon_in.weather_id = 801 /\ icon_in.is_day))
        /\ (icon_out.gradient # DefaultGradient) <=>
              (InDocumentedRange(icon_in.weather_id) \/ icon_in.weather_id \in 322..499)

\* the few-clouds code by day has been mapped, and to the fallback glyph
C3_Witness ==
    /\ IconsApplied
    /\ icon_in.weather_id = 801 /\ icon_in.is_day
    /\ icon_out.emoji = DefaultEmoji
    /\ icon_out.gradient # DefaultGradient

(***************************************************************************)
(* Claims about the forecast view                                          *)
(***************************************************************************)
ForecastShown == fc_out.set /\ fc_in.has_list

\* min(hours // 3, available_entries) of the response that was displayed
Truncation == Min(fc_out.hours \div 3, Len(fc_in.list))

\* the entries of forecast_data["list"] that have a card on the page
Rendered == {fc_out.cards[k].i : k \in 1..Len(fc_out.cards)}

\* every entry among the first Truncation has the documented shape
TruncatedWellShaped == \A i \in 1..Truncation : WellShaped(fc_in.list[i])

\* C5: for every hours value in {24, 48, 72, 120} and every number of
\* available entries (0 included), display_forecast renders
\* min(hours // 3, available) entries over all day groups, and they are
\* exactly the first that many entries of the upstream list.
C5_TruncatedCount ==
    ForecastShown =>
        /\ Len(fc_out.cards) = Truncation
        /\ Rendered = 1..Truncation

\* C6: display_forecast puts every truncated entry in exactly one day
\* bucket, the one keyed by the calendar date of its dt_txt, and keeps the
\* order of the source sequence within each bucket, for any input sequence.
C6_GroupedByDay ==
    ForecastShown =>
        /\ \A i \in 1..Truncation :
              /\ Cardinality({g \in 1..Len(fc_out.groups) :
                                 \E k \in 1..Len(fc_out.groups[g].idxs) :
                                     fc_out.groups[g].idxs[k] = i}) = 1
              /\ \A g \in 1..Len(fc_out.groups) :
                    (\E k \in 1..Len(fc_out.groups[g].idxs) : fc_out.groups[g].idxs[k] = i)
                       => fc_out.groups[g].key
                            = DayKey(fc_in.list[i].dt_txt.y, fc_in.list[i].dt_txt.mo,
                                     fc_in.list[i].dt_txt.d)
        /\ \A g \in 1..Len(fc_out.groups) :
              \A a, b \in 1..Len(fc_out.groups[g].idxs) :
                  a < b => fc_out.groups[g].idxs[a] < fc_out.groups[g].idxs[b]

\* C7: for every forecast entry whose dt_txt does not match
\* YYYY-MM-DD HH:MM:SS, timestamp formatting yields (dt_txt, "") and
\* display_forecast completes without an exception.
C7_ParseFailureNeverRaises ==
    ForecastShown =>
        \A i \in 1..Len(fc_in.list) :
            (fc_in.list[i].dt_txt.present /\ ~Parses(fc_in.list[i].dt_txt)) =>
                /\ format_datetime(fc_in.list[i].dt_txt) = <<fc_in.list[i].dt_txt.raw, "">>
                /\ fc_out.raised = "none"

\* the formatting half of C7 alone: (dt_txt, "") for every unparsable dt_txt
FormatFallback ==
    \A i \in 1..Len(fc_in.list) :
        (fc_in.list[i].dt_txt.present /\ ~Parses(fc_in.list[i].dt_txt)) =>
            format_datetime(fc_in.list[i].dt_txt) = <<fc_in.list[i].dt_txt.raw, "">>

\* C5 and C6 over responses whose truncated entries all have the documented
\* shape: the count, the buckets and the order are as claimed
ShapedForecastAsClaimed ==
    (ForecastShown /\ TruncatedWellShaped) =>
        /\ fc_out.raised = "none"
        /\ C5_TruncatedCount
        /\ C6_GroupedByDay

(***************************************************************************)
(* Claims about the render pass and the weather client                     *)
(***************************************************************************)
\* get_coordinates returned a latitude and a longitude in this pass
CoordinatesFound == pass.geo_returned /\ pass.coords.lat # None /\ pass.coords.lon # None

\* the pass called fn with exactly the coordinates get_coordinates returned
\* and the selected units
CalledWithCoordinates(fn) ==
    \E i \in 1..Len(pass.calls) :
        pass.calls[i] = CallKey(fn, "", pass.coords.lat, pass.coords.lon, pass.units)

WeatherCalls ==
    {i \in 1..Len(pass.calls) : pass.calls[i].fn \in {"get_current_weather", "get_forecast"}}

\* C1: in every render pass with a non-empty location, if get_coordinates
\* returns a latitude and longitude then get_current_weather and
\* get_forecast are each called with exactly them and the units; if it
\* returns the not-found signal then neither is called and "Location not
\* found" is shown.
C1_CoordinatesFlow ==
    (pass.done /\ pass.geo_returned) =>
        IF CoordinatesFound
        THEN /\ CalledWithCoordinates("get_current_weather")
             /\ CalledWithCoordinates("get_forecast")
             /\ Cardinality(WeatherCalls) = 2
        ELSE /\ WeatherCalls = {}
             /\ "location_not_found" \in pass.shown

\* the geocoding endpoint answered in this pass, and what it answered
GeoAnswered == pass.received # <<>> /\ pass.received[1].key.fn = "get_coordinates"

GeoAnswer == pass.received[1].response

\* the answer is a list whose first item is an object
HasFirstMatch(response) ==
    /\ ~response.failed /\ response.type = "list" /\ response.items # <<>>
    /\ response.items[1].is_object

\* C2: get_coordinates returns the first match's lat and lon with its
\* name/country/state, or the not-found signal; when the result list is
\* empty, the request fails, or the response is malformed (first match
\* without lat or lon, or not a list) it returns the not-found signal
\* without raising; it never returns a tuple with only one of lat/lon set.
C2_CoordinatesOrNotFound ==
    GeoAnswered =>
        /\ pass.raised = "none" /\ pass.geo_returned
        /\ \/ pass.coords = NotFound
           \/ /\ HasFirstMatch(GeoAnswer)
              /\ pass.coords = [lat |-> GeoAnswer.items[1].lat,
                                lon |-> GeoAnswer.items[1].lon,
                                name |-> Get(GeoAnswer.items[1].name),
                                country |-> Get(GeoAnswer.items[1].country),
                                state |-> Get(GeoAnswer.items[1].state)]
        /\ (~HasFirstMatch(GeoAnswer) \/ GeoAnswer.items[1].lat = Absent
               \/ GeoAnswer.items[1].lon = Absent) => pass.coords = NotFound
        /\ (pass.coords.lat = None) <=> (pass.coords.lon = None)

\* C8: with the API key unset or equal to the placeholder, no geocoding,
\* current-weather or forecast request is issued in any render pass.
C8_NoRequestWithoutKey ==
    api_key = Placeholder => pass.gets = <<>>

\* a decoded current-weather body without main, or without a first condition
CurMalformed(response) ==
    ~response.none /\ (~response.has_main \/ response.weather # "ok")

\* a decoded forecast body without list, or with an entry off the documented shape
FcMalformed(response) ==
    /\ ~response.none
    /\ \/ ~response.has_list
       \/ \E i \in 1..Len(response.list) : ~WellShaped(response.list[i])

\* C9: for every decoded current-weather or forecast response that misses
\* an expected field, the render pass completes without an uncaught
\* exception and the affected section shows a descriptive message instead.
C9_MalformedNotPropagated ==
    pass.done =>
        \A i \in 1..Len(pass.received) :
            /\ (pass.received[i].key.fn = "get_current_weather"
                  /\ CurMalformed(pass.received[i].response))
                 => (pass.raised = "none" /\ "current_unavailable" \in pass.shown)
            /\ (pass.received[i].key.fn = "get_forecast"
                  /\ FcMalformed(pass.received[i].response))
                 => (pass.raised = "none" /\ "forecast_unavailable" \in pass.shown)

\* C10: with no reset, at most one GET per distinct location string, and at
\* most one current-weather GET and one forecast GET per distinct
\* (lat, lon, units), is issued within one TTL window.
C10_OneGetPerWindow == early_gets = {}

\* C1 over the passes that no exception ended
CoordinatesFlowUnlessAborted == pass.raised = "none" => C1_CoordinatesFlow

\* the memoized weather calls never repeat a GET within one TTL: only a
\* get_coordinates GET does, and get_coordinates alone can raise
OnlyGeocodeGetsRepeat == \A k \in early_gets : k.fn = "get_coordinates"

(***************************************************************************)
(* Claims about the wind direction                                         *)
(***************************************************************************)
WindApplied == wind_in.set /\ wind_out.set

\* C4: get_wind_direction has period 360 degrees, also for negative degrees
\* and for degrees on a sector boundary (ties round to even); 0 degrees is
\* "N", 180 degrees is "S", and the index is always within 0..15.
C4_WindPeriodic ==
    WindApplied =>
        /\ wind_out.dir = wind_out.dir360
        /\ wind_out.index \in 0..15
        /\ (wind_in.deg = 0 => wind_out.dir = "N")
        /\ (wind_in.deg = FullCircleQ \div 2 => wind_out.dir = "S")

\* -11.25 degrees, a negative sector boundary, has been mapped (to "N")
C4_Witness ==
    /\ WindApplied
    /\ wind_in.deg < 0
    /\ 2 * (wind_in.deg % SectorQ) = SectorQ
    /\ wind_out.dir = "N"

(***************************************************************************)
(* Claims about failed requests, the reset and the order of the fetches    *)
(***************************************************************************)
\* the st.error a cached fetch leaves on the page when its request failed
FailureMessage(fn) ==
    CASE fn = "get_coordinates" -> "error_fetching_location"
      [] fn = "get_current_weather" -> "error_fetching_current"
      [] fn = "get_forecast" -> "error_fetching_forecast"

\* the pass issued a GET for call key k
Requested(k) == \E j \in 1 .. Len(pass.gets) : pass.gets[j].key = k

\* the pass shows the failure of a request it did not issue itself
ServedFailure(k) ==
    /\ \E i \in 1 .. Len(pass.calls) : pass.calls[i] = k
    /\ FailureMessage(k.fn) \in pass.shown
    /\ ~Requested(k)

\* C11: a failed or timed-out request is retriable: when the user resubmits
\* the same location with the same settings, the request that failed is
\* issued again, so no pass shows the failure of a request of an earlier pass
\* without issuing that request itself.  (Under the placeholder key every
\* request is refused, which is not a network error.)
C11_FailedRequestRetried ==
    api_key # Placeholder =>
        \A fn \in {"get_coordinates", "get_current_weather", "get_forecast"} :
            \A i \in 1 .. Len(pass.calls) :
                pass.calls[i].fn = fn => ~ServedFailure(pass.calls[i])

\* a fetch served from the cache
CacheHit(k) ==
    \/ GeocodeHit /\ k = GeoKey(pass.location)
    \/ CurrentHit /\ k = CurrentKey
    \/ ForecastHit /\ k = ForecastKey

FetchRank(fn) ==
    CASE fn = "get_coordinates" -> 1
      [] fn = "get_current_weather" -> 2
      [] fn = "get_forecast" -> 3

\* the current-weather request of this pass failed
CurrentRequestFailed ==
    \E j \in 1 .. Len(pass.received) :
        /\ pass.received[j].key.fn = "get_current_weather"
        /\ pass.received[j].response.none

\* C13 (as stated): within one render pass the GETs go out in the order geocoding,
\* current weather, forecast, at most one of each and none twice, each after
\* the answer to the one before it; and a pass whose current-weather request
\* failed still issues the forecast request.
C13_SequentialNoRetry ==
    /\ \A i, j \in 1 .. Len(pass.gets) :
          i < j => FetchRank(pass.gets[i].key.fn) < FetchRank(pass.gets[j].key.fn)
    /\ Len(pass.received) = Len(pass.gets)
    /\ \A j \in 1 .. Len(pass.gets) : pass.received[j].key = pass.gets[j].key
    /\ (pass.done /\ CurrentRequestFailed) =>
          \E j \in 1 .. Len(pass.gets) : pass.gets[j].key.fn = "get_forecast"

\* the order of the GETs of the pass: geocoding, current weather, forecast,
\* at most one of each, each after the answer to the one before it
InScriptOrder(p) ==
    /\ \A i, j \in 1 .. Len(p.gets) :
          i < j => FetchRank(p.gets[i].key.fn) < FetchRank(p.gets[j].key.fn)
    /\ Len(p.received) = Len(p.gets)
    /\ \A j \in 1 .. Len(p.gets) : p.received[j].key = p.gets[j].key

\* C13 (amended): within one render pass the GETs go out in the order
\* geocoding, current weather, forecast, at most one of each and none twice,
\* each after the answer to the one before it; and after a failed
\* current-weather request the pass still calls get_forecast with the same
\* coordinates and units, whose request goes out unless a memoized forecast
\* for them is still fresh.
C13_SequentialFetches ==
    [][ /\ InScriptOrder(pass')
        /\ (pc = "current" /\ pc' # "current" /\ CurrentRequestFailed') =>
              /\ pc' = "forecast"
              /\ pass'.calls[Len(pass'.calls)] =
                    CallKey("get_forecast", "", pass.coords.lat, pass.coords.lon, pass.units)
        /\ (pc = "forecast" /\ pc' # "forecast" /\ CurrentRequestFailed) =>
              \/ Fresh(ForecastKey)
              \/ /\ Len(pass'.gets) = Len(pass.gets) + 1
                 /\ pass'.gets[Len(pass'.gets)].key = ForecastKey
      ]_vars

\* a pass that made all three requests, the current-weather one failing and
\* the forecast one answered
C13_Witness ==
    /\ pass.done /\ Len(pass.gets) = 3
    /\ CurrentRequestFailed
    /\ pass.gets[3].key.fn = "get_forecast"
    /\ ~pass.received[3].response.none
    /\ "current_unavailable" \in pass.shown /\ "forecast" \in pass.shown

====
